---- MODULE Spec2Model ----
(***************************************************************************)
(* The adaptive training controller of demo.py: Trainer.__init__,          *)
(* Trainer.train, Trainer.train_step and Trainer.train_step_3dgs, with the *)
(* interactive control channel (the `server` dictionary) as environment.   *)
(* Floating point controls are modelled on an integer scale (-9.0 is -9),  *)
(* position_lr_init in units of its configured base value.                 *)
(***************************************************************************)
EXTENDS Integers, Sequences, FiniteSets, TLC

\* ------------------------------------------------------------------ bounds
\* Number of iterations a run processes: iterations = first_iter + MaxRun.
MaxRun == 3
\* Number of training viewpoints returned by scene.getTrainCameras().
NumCameras == 2
\* optimzer_args.densification_interval of the modelled runs.
DensificationInterval == 2

\* ------------------------------------------------------- program constants
ForceFinalizeAfter == 15200
LrShiftAfter == 15200
LrShiftOrigin == 15000
ShInterval == 1000
LrBoost == 5
InitBoundaryScale == -9
RefineBoundaryScale == -7
FixItersCap == 30000

\* ------------------------------------------------------------ input sets
\* Iteration tags of the checkpoint a run starts from; 0 is a run from
\* scratch (start_checkpoint = None leaves first_iter = 0).
StartIters == {0, 998, 15200, 15201}
\* mode2_iters, relative to the start: already passed (0) or inside the run.
Mode2Offsets == {0, 2}
\* fix_iters: a deadline inside the run, or the default that is never below
\* FixItersCap.
FixOffsets == {1}
\* pipeline_args.log_blur_radius_tex of the modelled runs.
BlurRadiusTex == {-6}
Modes == {0, 1, 2}
\* Values of loss.item(), in millionths: 1.0, 0.5, 0.25.
LossValues == {1000000, 500000, 250000}
\* Render-view selectors: one per way the steps treat a selector.
\*   "debug"       handled by both steps
\*   "edges"       handled by train_step only, reads the local `edges`
\*   "Wireframe"   handled by neither step
RenderTypes == {"debug", "edges", "Wireframe"}
Cameras == 1..NumCameras

VARIABLES
    pc,              \* "init" (constructed), "loop", "done", "crashed"
    cfg,             \* the run's arguments, fixed once parsed
    first_iter,      \* Trainer.first_iter
    iteration,       \* the loop variable of Trainer.train
    server,          \* the control channel: server[...] values
    bprim,           \* BPrimitiveBezier: boundary_mode, active_sh_degree
    position_lr_init,\* optimzer_args.position_lr_init, in units of its base
    viewpoint_stack, \* the work-list of Trainer.train
    grads,           \* backward passes whose gradients are pending
    saved,           \* iteration tags of the checkpoint files written
    events,          \* operations of the latest step, in program order
    mode_seen,       \* server["mode"].value as the latest train_step read it
    finalize_at,     \* iterations whose train_step ran the Finalize entry block
    visited,         \* viewpoints selected since all of them had been selected
    passes,          \* passes of the loop body begun so far
    mode_origin,     \* iteration in which the current boundary mode was entered
    ema_loss_for_log \* Trainer.ema_loss_for_log, in millionths

vars == <<pc, cfg, first_iter, iteration, server, bprim, position_lr_init,
          viewpoint_stack, grads, saved, events, mode_seen, finalize_at, visited,
          passes, mode_origin, ema_loss_for_log>>

Range(q) == {q[i] : i \in 1..Len(q)}

RemoveAt(q, i) == [j \in 1..(Len(q) - 1) |-> IF j < i THEN q[j] ELSE q[j + 1]]

Min(a, b) == IF a < b THEN a ELSE b


\* ------------------------------------------------------------ construction
\* BPrimitiveBezier.mode(k): makes k the boundary mode and reports whether
\* that changed it.
ModeCall(bm, k) == [changed |-> bm # k, bm |-> k]

\* __main__: the run's iteration budget is appended to the checkpoint list.
CheckpointIterations(user_list, iterations) == Append(user_list, iterations)

\* The arguments of a run that starts at tag `start`.
Arguments(start, m2, fx, tex, dv) ==
    [ losses                 |-> {0},
      start_checkpoint       |-> IF start = 0 THEN <<>> ELSE <<start>>,
      iterations             |-> start + MaxRun,
      mode2_iters            |-> start + m2,
      fix_iters              |-> fx,
      log_blur_radius_tex    |-> tex,
      densify_until_iter     |-> start + MaxRun,
      densification_interval |-> DensificationInterval,
      densify_from_iter      |-> 500,
      opacity_reset_interval |-> 3000,
      sh_degree              |-> 3,
      checkpoint_iterations  |-> CheckpointIterations(<<start + 2>>, start + MaxRun),
      disable_viewer         |-> dv ]

\* Trainer.__init__: first_iter is 0, or the tag the checkpoint file holds
\* (start_checkpoint is <<>> for None, <<N>> for a file tagged N).
RestoredFirstIter(checkpoint) == IF checkpoint # <<>> THEN checkpoint[1] ELSE 0

\* Variant: the force-advance also taken at the threshold itself.
RestoredBoundaryModeAtThreshold(checkpoint) ==
    IF checkpoint # <<>> /\ RestoredFirstIter(checkpoint) >= ForceFinalizeAfter
        THEN ModeCall(0, 2).bm
        ELSE 0

\* Trainer.__init__: the boundary mode after the optional restore; a freshly
\* built BPrimitiveBezier is in mode 0.
RestoredBoundaryMode(checkpoint) ==
    IF checkpoint # <<>> /\ RestoredFirstIter(checkpoint) > ForceFinalizeAfter
        THEN ModeCall(0, 2).bm
        ELSE 0

\* network_gui.init: the controls as the channel creates them.
InitialControls ==
    [ mode                  |-> 0,
      slider_boundary_scale |-> InitBoundaryScale,
      checkbox_split        |-> TRUE,
      checkbox_pts_mode     |-> FALSE,
      button_train_state    |-> TRUE,
      button_optimize_state |-> TRUE,
      render_type           |-> "debug",
      attached              |-> TRUE ]

Constructed(args) ==
    /\ pc = "init"
    /\ cfg = args
    /\ first_iter = RestoredFirstIter(args.start_checkpoint)
    /\ iteration = RestoredFirstIter(args.start_checkpoint)
    /\ server = InitialControls
    /\ bprim = [boundary_mode |-> RestoredBoundaryMode(args.start_checkpoint), active_sh_degree |-> 0]
    /\ position_lr_init = 1
    /\ viewpoint_stack = <<>>
    /\ grads = 0
    /\ saved = {}
    /\ events = <<>>
    /\ mode_seen = -1
    /\ finalize_at = {}
    /\ visited = {}
    /\ passes = 0
    /\ mode_origin = RestoredFirstIter(args.start_checkpoint)
    /\ ema_loss_for_log = 0

Init ==
    \E start \in StartIters, m2 \in Mode2Offsets, tex \in BlurRadiusTex, dv \in BOOLEAN :
      \E fx \in {start + d : d \in FixOffsets} \cup {FixItersCap} :
        Constructed(Arguments(start, m2, fx, tex, dv))

\* ------------------------------------------------- interactive control writes
\* The client writes one control.  Writes are taken between iterations, from
\* the start of train() to the last pass of its loop; the log of the previous
\* step is dropped when one arrives.
CanWrite == pc = "loop" /\ iteration < cfg.iterations

GuiWrite(field, value) ==
    /\ CanWrite
    /\ server[field] # value
    /\ server' = [server EXCEPT ![field] = value]
    /\ events' = <<>>
    /\ UNCHANGED <<pc, cfg, first_iter, iteration, bprim, position_lr_init,
                   viewpoint_stack, grads, saved, mode_seen, finalize_at, visited,
                   passes, mode_origin, ema_loss_for_log>>

GuiSetMode == \E m \in Modes : GuiWrite("mode", m)

GuiToggleSplit == GuiWrite("checkbox_split", ~server.checkbox_split)

GuiTogglePtsMode == GuiWrite("checkbox_pts_mode", ~server.checkbox_pts_mode)

GuiToggleTrain == GuiWrite("button_train_state", ~server.button_train_state)

GuiToggleOptimize == GuiWrite("button_optimize_state", ~server.button_optimize_state)

\* The selector is read by the viewer sections only.
GuiSetRenderType == server.attached /\ \E r \in RenderTypes : GuiWrite("render_type", r)

\* ------------------------------------------------------------ Trainer.train
\* train() up to its loop: the viewer is detached when disabled, first_iter
\* moves to the first iteration to process, a restored Finalize mode is
\* pushed to the mode control.
TrainBegin ==
    /\ pc = "init"
    /\ pc' = "loop"
    /\ first_iter' = first_iter + 1
    /\ viewpoint_stack' = <<>>
    /\ server' = [server EXCEPT
                    !.attached = ~cfg.disable_viewer,
                    !.mode = IF bprim.boundary_mode = 2 THEN 2 ELSE @]
    /\ events' = <<>>
    /\ UNCHANGED <<cfg, iteration, bprim, position_lr_init, grads, saved,
                   mode_seen, finalize_at, visited, passes, mode_origin, ema_loss_for_log>>


\* --------------------------------------------------------- the step's state
\* What one step reads and writes, threaded through its blocks in program
\* order: the controls it writes, the primitive object, the optimizer
\* configuration, the pending gradients, the checkpoint files, the loss
\* average, the value this iteration's loss takes, the log.
StepState ==
    [ mode    |-> server.mode,
      slider  |-> server.slider_boundary_scale,
      split   |-> server.checkbox_split,
      bm      |-> bprim.boundary_mode,
      sh      |-> bprim.active_sh_degree,
      lr      |-> position_lr_init,
      grads   |-> grads,
      saved   |-> saved,
      fin     |-> finalize_at,
      ema     |-> ema_loss_for_log,
      loss    |-> 0,
      edges   |-> FALSE,
      crashed |-> FALSE,
      ev      |-> <<>> ]

Log(s, op, arg) == [s EXCEPT !.ev = Append(@, <<op, arg>>)]

\* bprimitive_object.training_setup(optimzer_args): rebuilds the optimizer
\* and the scheduler from the configuration as it is at the call.
TrainingSetup(s) == Log(s, "training_setup", s.lr)

\* ------------------------------------------------- train_step: mode section
\* The iteration-triggered switch to mode 2.
ModeSwitch(s, it) ==
    IF it = cfg.mode2_iters
        THEN Log([s EXCEPT !.mode = 2, !.slider = cfg.log_blur_radius_tex],
                 "create_feature_texture", 0)
        ELSE s

\* Variant: no deadline on the split checkbox.
SplitDeadlineNever(s, it) == s

\* Past fix_iters the split checkbox is cleared; the log keeps whether it
\* was set (1) or not (0).
SplitDeadline(s, it) ==
    IF it > cfg.fix_iters
        THEN Log([s EXCEPT !.split = FALSE], "clear_split", IF s.split THEN 1 ELSE 0)
        ELSE s

HandleMode0(s) ==
    IF s.mode = 0
        THEN LET s1 == [s EXCEPT !.slider = InitBoundaryScale]
                 m  == ModeCall(s1.bm, 0)
             IN  IF m.changed
                     THEN TrainingSetup(Log([s1 EXCEPT !.bm = m.bm, !.lr = @ * LrBoost],
                                            "enter", 0))
                     ELSE [s1 EXCEPT !.bm = m.bm]
        ELSE s

HandleMode1(s) ==
    IF s.mode = 1
        THEN LET m == ModeCall(s.bm, 1)
             IN  IF m.changed
                     THEN LET s1 == TrainingSetup(Log([s EXCEPT !.bm = m.bm], "enter", 1))
                          IN  IF s1.slider < RefineBoundaryScale
                                  THEN [s1 EXCEPT !.slider = RefineBoundaryScale]
                                  ELSE s1
                     ELSE [s EXCEPT !.bm = m.bm]
        ELSE s

\* Variant: the Finalize entry block without the mode() guard around it.
HandleMode2Unguarded(s, it) ==
    IF s.mode = 2
        THEN TrainingSetup(Log(
               [s EXCEPT !.bm = ModeCall(s.bm, 2).bm,
                         !.slider = cfg.log_blur_radius_tex,
                         !.split = IF cfg.fix_iters < FixItersCap THEN FALSE ELSE @,
                         !.sh = 0,
                         !.fin = @ \cup {it}],
               "enter", 2))
        ELSE s

HandleMode2(s, it) ==
    IF s.mode = 2
        THEN LET m == ModeCall(s.bm, 2)
             IN  IF m.changed
                     THEN TrainingSetup(Log(
                            [s EXCEPT !.bm = m.bm,
                                      !.slider = cfg.log_blur_radius_tex,
                                      !.split = IF cfg.fix_iters < FixItersCap THEN FALSE ELSE @,
                                      !.sh = 0,
                                      !.fin = @ \cup {it}],
                            "enter", 2))
                     ELSE [s EXCEPT !.bm = m.bm]
        ELSE s

\* The learning rates pushed for this iteration.
UpdateLearningRate(s, it) ==
    IF s.mode = 1
        THEN Log(s, "update_learning_rate", it)
        ELSE IF it > LrShiftAfter
                 THEN Log(s, "update_learning_rate", it - LrShiftOrigin)
                 ELSE s

\* Every ShInterval iterations the SH degree goes up by one, up to the
\* configured maximum.
OneUpShDegree(s, it) ==
    IF it % ShInterval = 0
        THEN Log([s EXCEPT !.sh = Min(@ + 1, cfg.sh_degree)], "one_up_sh_degree", 0)
        ELSE s


\* --------------------------------------------- train_step: training section
Render(s) == Log(s, "render", s.sh)

\* Variant: the L2 term whatever the mode.
LossAlwaysL2(s) == Log(s, "loss", 2)

\* The photometric term: the L2 norm below mode 2, the L1 norm in mode 2.
Loss(s) == Log(s, "loss", IF s.mode < 2 THEN 2 ELSE 1)

Backward(s, it) == Log([s EXCEPT !.grads = @ + 1], "backward", it)

\* Variant: the two weights of the average exchanged.
EmaUpdateSwapped(s) == Log([s EXCEPT !.ema = (6 * s.loss + 4 * @) \div 10], "ema", s.loss)

\* Variant: the previous average added in full.
EmaUpdateNoDecay(s) == Log([s EXCEPT !.ema = (4 * s.loss + 10 * @) \div 10], "ema", s.loss)

\* ema_loss_for_log = 0.4 * loss.item() + 0.6 * ema_loss_for_log; the log
\* keeps the loss that went in.
EmaUpdate(s) == Log([s EXCEPT !.ema = (4 * s.loss + 6 * @) \div 10], "ema", s.loss)

SaveCheckpoint(s, it) ==
    IF it \in Range(cfg.checkpoint_iterations)
        THEN Log([s EXCEPT !.saved = @ \cup {it}], "save", it)
        ELSE s

\* The edge image exists only when the boundary mode is above 0.
EdgeStats(s) == IF s.bm > 0 THEN [s EXCEPT !.edges = TRUE] ELSE s

\* Variant: the step without the `iteration < iterations` guard.
OptimizerStepAlsoLast(s, it) ==
    IF server.button_optimize_state
        THEN Log([s EXCEPT !.grads = 0], "optimizer.step", s.grads)
        ELSE s

\* optimizer.step() and zero_grad(set_to_none = True); the log keeps the
\* number of backward passes whose gradients the step applied.
OptimizerStep(s, it) ==
    IF server.button_optimize_state
        THEN IF it < cfg.iterations
                 THEN Log([s EXCEPT !.grads = 0], "optimizer.step", s.grads)
                 ELSE s
        ELSE s

\* Variant: the guard without the split checkbox.
DensifyGuardIgnoringSplit(s, it) ==
    /\ it < cfg.densify_until_iter
    /\ it % cfg.densification_interval = 0

DensifyGuard(s, it) ==
    /\ it < cfg.densify_until_iter
    /\ it % cfg.densification_interval = 0
    /\ s.split

\* zero_grad, densify_and_prune, training_setup; the log keeps the number of
\* backward passes whose gradients zero_grad threw away.
Densify(s, it) ==
    IF DensifyGuard(s, it)
        THEN TrainingSetup(Log(Log([s EXCEPT !.grads = 0], "zero_grad", s.grads),
                               "densify_and_prune", 0))
        ELSE s

TrainBlock(s, it) ==
    IF server.button_train_state
        THEN LET s1 == EmaUpdate(Backward(Loss(Render(s)), it))
                 s2 == EdgeStats(SaveCheckpoint(s1, it))
                 s3 == OptimizerStep(s2, it)
                 s4 == SaveCheckpoint(s3, it)
             IN  Densify(s4, it)
        ELSE s

\* ----------------------------------------------- train_step: viewer section
\* Selectors with a branch in train_step's chain.
TrainStepSelectors == {"debug", "edges"}

\* The frame for the live client.  Reading `edges` in a call that did not
\* compute it raises; a selector without a branch publishes output = None.
ViewerBlock(s) ==
    IF ~server.attached
        THEN s
        ELSE LET s1 == Log(s, "viewer_render", 0)
             IN  IF server.render_type = "edges" /\ ~s1.edges
                     THEN [s1 EXCEPT !.crashed = TRUE]
                     ELSE IF server.render_type \in TrainStepSelectors
                              THEN Log(Log(s1, "publish", 1), "num_primitives", 0)
                              ELSE Log(Log(Log(s1, "unsupported", 0), "publish", 0),
                                       "num_primitives", 0)

\* The mode section: the iteration-triggered switch, the split deadline and
\* the three mode handlers.
ModeSection(s, it) ==
    LET a == SplitDeadline(ModeSwitch(s, it), it)
    IN  HandleMode2(HandleMode1(HandleMode0(a)), it)

TrainStep(s, it) ==
    LET b == ModeSection(s, it)
        c == OneUpShDegree(UpdateLearningRate(b, it), it)
    IN  ViewerBlock(TrainBlock(c, it))

\* ------------------------------------------------------- train_step_3dgs
TrainBlock3dgs(s, it) ==
    IF server.button_train_state
        THEN LET s1 == Log(s, "gs.update_learning_rate", it)
                 s2 == IF it % ShInterval = 0 THEN Log(s1, "gs.oneupSHdegree", 0) ELSE s1
                 s3 == EmaUpdate(Log(Log(Log(s2, "gs.render", 0), "gs.loss", 1),
                                     "gs.backward", it))
                 s4 == IF it > cfg.densify_from_iter /\ it % 100 = 0
                           THEN Log(s3, "gs.densify_and_prune", 0)
                           ELSE s3
                 s5 == IF it % cfg.opacity_reset_interval = 0
                           THEN Log(s4, "gs.reset_opacity", 0)
                           ELSE s4
                 s6 == IF it < cfg.iterations THEN Log(s5, "gs.optimizer.step", 0) ELSE s5
             IN  IF it = 7000 THEN Log(s6, "gs.save_pointcloud", 0) ELSE s6
        ELSE s

\* Selectors with a branch in train_step_3dgs's chain.
PointsStepSelectors == {"debug"}

\* The chain has no else branch: any other selector leaves `output` unbound
\* and the publish raises.
ViewerBlock3dgs(s) ==
    IF ~server.attached
        THEN s
        ELSE LET s1 == Log(s, "gs.viewer_render", 0)
             IN  IF server.render_type \in PointsStepSelectors
                     THEN Log(Log(s1, "publish", 1), "num_primitives", 0)
                     ELSE [s1 EXCEPT !.crashed = TRUE]

TrainStep3dgs(s, it) == ViewerBlock3dgs(TrainBlock3dgs(s, it))

\* ------------------------------------------------------- the loop of train()
\* The next value of `for iteration in range(first_iter, iterations + 1)`.
NextIteration == IF iteration < first_iter THEN first_iter ELSE iteration + 1

TrainCameras == [i \in 1..NumCameras |-> i]

\* Variant: the work-list refilled while one viewpoint is still on it.
RefillEarly(stack) == IF Len(stack) <= 1 THEN TrainCameras ELSE stack

\* `if not viewpoint_stack`: the work-list is refilled with a copy of the
\* training cameras.
Refill(stack) == IF stack = <<>> THEN TrainCameras ELSE stack

\* One pass of the loop body: the viewpoint is popped at a random index, then
\* the step the points-mode checkbox selects runs to its end.
Iterate(s, it) ==
    /\ pc = "loop"
    /\ it <= cfg.iterations
    /\ LET stack == Refill(viewpoint_stack)
       IN  \E idx \in 1..Len(stack) :
             /\ viewpoint_stack' = RemoveAt(stack, idx)
             /\ visited' = (IF visited = Cameras THEN {} ELSE visited) \cup {stack[idx]}
             /\ events' = <<<<"select", Len(viewpoint_stack)>>>> \o s.ev
    /\ iteration' = it
    /\ pc' = IF s.crashed THEN "crashed" ELSE "loop"
    /\ server' = [server EXCEPT !.mode = s.mode,
                                !.slider_boundary_scale = s.slider,
                                !.checkbox_split = s.split]
    /\ bprim' = [boundary_mode |-> s.bm, active_sh_degree |-> s.sh]
    /\ position_lr_init' = s.lr
    /\ grads' = s.grads
    /\ saved' = s.saved
    /\ finalize_at' = s.fin
    /\ ema_loss_for_log' = s.ema
    /\ passes' = passes + 1
    /\ mode_origin' = IF s.bm # bprim.boundary_mode THEN it ELSE mode_origin
    /\ UNCHANGED <<cfg, first_iter>>

\* The step's state at entry, with the value this iteration's loss takes.
StepInput(l) == [StepState EXCEPT !.loss = l]

IterateTrainStep ==
    /\ ~server.checkbox_pts_mode
    /\ \E l \in cfg.losses :
          Iterate(TrainStep(StepInput(l), NextIteration), NextIteration)
    /\ mode_seen' = server'.mode

IterateTrainStep3dgs ==
    /\ server.checkbox_pts_mode
    /\ \E l \in cfg.losses :
          Iterate(TrainStep3dgs(StepInput(l), NextIteration), NextIteration)
    /\ UNCHANGED mode_seen

\* The loop is exhausted: train() returns and "Training complete." is printed.
Finish ==
    /\ pc = "loop"
    /\ NextIteration > cfg.iterations
    /\ pc' = "done"
    /\ events' = <<>>
    /\ UNCHANGED <<cfg, first_iter, iteration, server, bprim, position_lr_init,
                   viewpoint_stack, grads, saved, mode_seen, finalize_at, visited,
                   passes, mode_origin, ema_loss_for_log>>

Next ==
    \/ TrainBegin
    \/ IterateTrainStep
    \/ IterateTrainStep3dgs
    \/ Finish
    \/ GuiSetMode
    \/ GuiToggleSplit
    \/ GuiTogglePtsMode
    \/ GuiToggleTrain
    \/ GuiToggleOptimize
    \/ GuiSetRenderType

Spec == Init /\ [][Next]_vars


\* A run from scratch that no client touches: the controls keep the values
\* the channel created them with.
InitQuiet ==
    \E m2 \in 0..(MaxRun + 1), tex \in BlurRadiusTex, dv \in BOOLEAN :
      \E fx \in (1..MaxRun) \cup {FixItersCap} :
        Constructed(Arguments(0, m2, fx, tex, dv))

NextQuiet ==
    \/ TrainBegin
    \/ IterateTrainStep
    \/ Finish

SpecQuiet == InitQuiet /\ [][NextQuiet]_vars

\* Runs from scratch whose trained iterations take their losses from
\* LossValues, with the client toggling the training button and points mode.
InitEma ==
    \E tex \in BlurRadiusTex, dv \in BOOLEAN :
        Constructed([Arguments(0, MaxRun + 1, FixItersCap, tex, dv)
                        EXCEPT !.losses = LossValues])

NextEma ==
    \/ TrainBegin
    \/ GuiToggleTrain
    \/ GuiTogglePtsMode
    \/ IterateTrainStep
    \/ IterateTrainStep3dgs
    \/ Finish

SpecEma == InitEma /\ [][NextEma]_vars

\* Runs in which the client never writes the mode control: it toggles the
\* training button and points mode only.
NextAuto ==
    \/ TrainBegin
    \/ GuiToggleTrain
    \/ GuiTogglePtsMode
    \/ IterateTrainStep
    \/ IterateTrainStep3dgs
    \/ Finish

SpecAuto == Init /\ [][NextAuto]_vars

\* ------------------------------------------------------------- properties
\* Positions of operation `op` in the log of the latest step.
At(op) == {i \in 1..Len(events) : events[i][1] = op}

Has(op) == At(op) # {}

\* The latest step was train_step (resp. train_step_3dgs).
RanTrainStep == Has("select") /\ ~server.checkbox_pts_mode

RanTrainStep3dgs == Has("select") /\ server.checkbox_pts_mode

\* C1: the mode value read by successive train_step calls never decreases;
\* in particular after a train_step has read 2 none reads 0 or 1.
C1_ModeNeverDecreases == [][mode_seen' >= mode_seen]_vars

\* C2: in a run from scratch with no interactive input, the Finalize entry
\* block runs in iteration mode2_iters and in no other iteration, once, and
\* the boundary-scale control holds log_blur_radius_tex right after it.
C2_FinalizeOnceAtM ==
    /\ finalize_at \subseteq {cfg.mode2_iters}
    /\ (pc # "init" /\ cfg.mode2_iters \in 1..iteration) => finalize_at = {cfg.mode2_iters}
    /\ Cardinality({i \in At("enter") : events[i][2] = 2}) <= 1
    /\ (\E i \in At("enter") : events[i][2] = 2) =>
          /\ iteration = cfg.mode2_iters
          /\ server.slider_boundary_scale = cfg.log_blur_radius_tex
          /\ server.mode = 2
          /\ bprim.boundary_mode = 2

C2_Witness ==
    /\ pc = "done"
    /\ cfg.mode2_iters \in 1..(cfg.iterations - 1)
    /\ finalize_at = {cfg.mode2_iters}
    /\ server.slider_boundary_scale = cfg.log_blur_radius_tex

\* C3: the loop processes first_iter+1 .. max_iterations, one by one in
\* increasing order, and ends after processing max_iterations.
C3_LoopRunsToEnd ==
    /\ pc # "init" => iteration = (first_iter - 1) + passes
    /\ pc \in {"done", "crashed"} => (pc = "done" /\ iteration = cfg.iterations)

\* C4: the checkpoint list holds max_iterations, and a run whose loop
\* completed has written the checkpoint tagged max_iterations.
C4_TerminalCheckpoint ==
    /\ cfg.iterations \in Range(cfg.checkpoint_iterations)
    /\ pc = "done" => cfg.iterations \in saved

\* C5: construction from a checkpoint tagged N leaves the iteration state at
\* N, and train() then starts at N+1; when N > 15200 the boundary mode and the
\* mode control both are 2 at that point and no entry block has run; when
\* N <= 15200 the mode is not advanced.
C5_RestoreThenBegin ==
    [][(pc = "init" /\ cfg.start_checkpoint # <<>>) =>
          LET N == cfg.start_checkpoint[1]
          IN  /\ first_iter = N
              /\ pc' = "loop"
              /\ NextIteration' = N + 1
              /\ position_lr_init' = 1
              /\ finalize_at' = {}
              /\ events' = <<>>
              /\ IF N > 15200
                     THEN bprim'.boundary_mode = 2 /\ server'.mode = 2
                     ELSE bprim'.boundary_mode = 0 /\ server'.mode = server.mode
    ]_vars

C5_Witness ==
    /\ pc = "loop"
    /\ passes = 0
    /\ cfg.start_checkpoint = <<15201>>
    /\ first_iter = 15202
    /\ bprim.boundary_mode = 2
    /\ server.mode = 2


\* C6: when densify_and_prune runs in an iteration, it runs after that
\* iteration's backward pass and before its optimizer step: no step lies
\* between the backward pass and the edit, and the gradients of that backward
\* pass are still pending when zero_grad discards them.
C6_EditBeforeStep ==
    \A d \in At("densify_and_prune") :
        /\ \E b \in At("backward") : b < d
        /\ \A o \in At("optimizer.step") : d < o
        /\ \E z \in At("zero_grad") : z < d /\ events[z][2] >= 1

\* C7: densify_and_prune runs in an iteration only if the iteration is below
\* densify_until_iter, is a multiple of densification_interval, and the split
\* checkbox is set when the guard reads it (no later write in the step).
C7_DensifyOnlyOnSchedule ==
    Has("densify_and_prune") =>
        /\ iteration < cfg.densify_until_iter
        /\ iteration % cfg.densification_interval = 0
        /\ server.checkbox_split

C7_Witness ==
    /\ Has("densify_and_prune")
    /\ iteration < cfg.densify_until_iter
    /\ iteration % cfg.densification_interval = 0
    /\ server.checkbox_split

\* The latest step trained (ran a backward pass) and, if so, stepped.
Trained == Has("backward") \/ Has("gs.backward")

Stepped == Has("optimizer.step") \/ Has("gs.optimizer.step")

\* C8 as stated: in every trained iteration up to and including
\* max_iterations the optimizer steps whenever the optimizer-step flag
\* allows it.
C8_StepInEveryIteration ==
    (Trained /\ server.button_optimize_state) => Stepped

\* C8 amended: in every trained iteration below max_iterations the optimizer
\* steps whenever the optimizer-step flag allows it; in iteration
\* max_iterations it never steps.
C8_StepBelowLastIteration ==
    /\ (Trained /\ server.button_optimize_state /\ iteration < cfg.iterations) => Stepped
    /\ (Has("select") /\ iteration = cfg.iterations) => ~Stepped

C8_Witness ==
    /\ RanTrainStep
    /\ Trained
    /\ server.button_optimize_state
    /\ iteration = cfg.iterations
    /\ ~Stepped

\* C9: the work-list is refilled with all viewpoints exactly when it is
\* empty, and no viewpoint is selected twice before all have been selected:
\* the n-th selection of a pass brings the number of distinct viewpoints of
\* that pass to n, and the work-list holds exactly the others, once each.
C9_EachViewpointOncePerPass ==
    passes >= 1 =>
        /\ Cardinality(visited) = ((passes - 1) % NumCameras) + 1
        /\ Range(viewpoint_stack) = Cameras \ visited
        /\ Len(viewpoint_stack) = Cardinality(Range(viewpoint_stack))
        /\ events # <<>> => events[1] = <<"select", (NumCameras - ((passes - 1) % NumCameras)) % NumCameras>>

C9_Witness ==
    /\ passes = NumCameras + 1
    /\ Cardinality(visited) = 1
    /\ Len(viewpoint_stack) = NumCameras - 1

\* C10: every train_step asks the scheduler for the rate at iteration minus
\* the iteration in which the active mode was entered, and does so in every
\* iteration in every mode.
C10_RateAtModeOrigin ==
    RanTrainStep =>
        /\ Has("update_learning_rate")
        /\ \A i \in At("update_learning_rate") : events[i][2] = iteration - mode_origin

\* The loop is about to call train_step.
AboutToTrainStep ==
    /\ pc = "loop"
    /\ NextIteration <= cfg.iterations
    /\ ~server.checkbox_pts_mode

\* What the mode section of that call leaves.
ModeSectionOut == ModeSection(StepState, NextIteration)

Logged(s, op) == \E i \in 1..Len(s.ev) : s.ev[i][1] = op

\* C11: in a train_step whose mode() call reports no change the mode section
\* reconfigures nothing: the mode, boundary scale and split controls,
\* position_lr_init and active_sh_degree keep their values, the feature
\* texture is not recreated and training_setup is not called.
C11_NoChangeNoReconfiguration ==
    (AboutToTrainStep /\ ~Logged(ModeSectionOut, "enter")) =>
        /\ ModeSectionOut.mode = server.mode
        /\ ModeSectionOut.slider = server.slider_boundary_scale
        /\ ModeSectionOut.split = server.checkbox_split
        /\ ModeSectionOut.lr = position_lr_init
        /\ ModeSectionOut.sh = bprim.active_sh_degree
        /\ ~Logged(ModeSectionOut, "create_feature_texture")
        /\ ~Logged(ModeSectionOut, "training_setup")

\* The mode section of that call runs the entry block of mode k.
Enters(k) == \E i \in 1..Len(ModeSectionOut.ev) : ModeSectionOut.ev[i] = <<"enter", k>>

\* C12: it is on entry into Refine (mode 1) that position_lr_init is
\* multiplied by 5 and training_setup rebuilds the optimizer; the entry into
\* any other mode leaves position_lr_init as it was.
C12_BoostOnRefineEntry ==
    AboutToTrainStep =>
        /\ Enters(1) => /\ ModeSectionOut.lr = position_lr_init * LrBoost
                        /\ Logged(ModeSectionOut, "training_setup")
        /\ ~Enters(1) => ModeSectionOut.lr = position_lr_init

\* C13: the entry into Finalize clears the split checkbox if the iteration
\* is past fix_iters and leaves it as it was otherwise.
C13_SplitClearedOnlyPastDeadline ==
    (AboutToTrainStep /\ Enters(2)) =>
        ModeSectionOut.split = IF NextIteration > cfg.fix_iters
                                   THEN FALSE
                                   ELSE server.checkbox_split

\* The latest step ran the entry block of mode k.
Entered(k) == \E i \in 1..Len(events) : events[i] = <<"enter", k>>

\* C14: in the iteration in which Finalize is entered, that iteration's
\* training render is invoked with active_sh_degree 0, whatever the entry
\* iteration, multiples of 1000 included.
C14_RenderAtDegreeZeroOnEntry ==
    (RanTrainStep /\ Entered(2)) =>
        \A i \in At("render") : events[i][2] = 0

\* The loss that went into the average in the latest step.
LossFed == events[CHOOSE i \in At("ema") : TRUE][2]

\* C15: ema_loss_for_log starts at 0; a trained iteration, of either step,
\* updates it exactly once to 0.4 * loss + 0.6 * previous value, exactly;
\* an iteration that does not train leaves it unchanged.
C15_EmaRecurrence ==
    /\ ema_loss_for_log = 0
    /\ [][IF Trained'
             THEN /\ Cardinality(At("ema")') = 1
                  /\ 10 * ema_loss_for_log' = 4 * LossFed' + 6 * ema_loss_for_log
             ELSE ema_loss_for_log' = ema_loss_for_log]_vars

\* An iteration that did not train follows trained ones and the average is
\* still theirs.
C15_Witness ==
    /\ passes >= 3
    /\ Has("select")
    /\ ~Trained
    /\ ema_loss_for_log \notin {0} \cup {(4 * l) \div 10 : l \in LossValues}

\* C16 as stated: from an average of 0 the losses 1.0, 0.5, 0.25 of three
\* consecutive trained iterations give 0.4, 0.46, 0.376.
C16_WorkedExampleAsStated ==
    [][Trained' =>
         /\ (ema_loss_for_log = 0 /\ LossFed' = 1000000) => ema_loss_for_log' = 400000
         /\ (ema_loss_for_log = 400000 /\ LossFed' = 500000) => ema_loss_for_log' = 460000
         /\ (ema_loss_for_log = 460000 /\ LossFed' = 250000) => ema_loss_for_log' = 376000]_vars

\* C16: from an average of 0 the losses 1.0, 0.5, 0.25 of three consecutive
\* trained iterations give 0.4, 0.44, 0.364.
C16_WorkedExample ==
    [][Trained' =>
         /\ (ema_loss_for_log = 0 /\ LossFed' = 1000000) => ema_loss_for_log' = 400000
         /\ (ema_loss_for_log = 400000 /\ LossFed' = 500000) => ema_loss_for_log' = 440000
         /\ (ema_loss_for_log = 440000 /\ LossFed' = 250000) => ema_loss_for_log' = 364000]_vars

C16_Witness ==
    /\ passes = 3
    /\ Trained
    /\ LossFed = 250000
    /\ ema_loss_for_log = 364000

\* The norm of the photometric term of the latest step: 2 for L2, 1 for L1.
NormUsed == events[CHOOSE i \in At("loss") \cup At("gs.loss") : TRUE][2]

\* C17 as stated: in every trained iteration the photometric term is L2
\* when the active mode is Init or Refine and L1 when it is Finalize.
C17_LossByModeEveryStep ==
    Trained => NormUsed = IF bprim.boundary_mode < 2 THEN 2 ELSE 1

\* C17: in every iteration trained by train_step the photometric term is L2
\* when the mode left by that iteration's mode section is 0 or 1 and L1
\* when it is 2; in every iteration trained by train_step_3dgs it is L1.
C17_LossByModeInTrainStep ==
    /\ (RanTrainStep /\ Trained) =>
          /\ server.mode = bprim.boundary_mode
          /\ NormUsed = IF server.mode < 2 THEN 2 ELSE 1
    /\ (RanTrainStep3dgs /\ Trained) => NormUsed = 1

\* The iteration that enters Finalize already uses L1.
C17_Witness ==
    /\ RanTrainStep
    /\ Trained
    /\ Entered(2)
    /\ NormUsed = 1

\* The latest step ran with a client attached and a render-view selector
\* its chain has no branch for.
UnsupportedSelector ==
    /\ server.attached
    /\ \/ RanTrainStep /\ server.render_type \notin TrainStepSelectors
       \/ RanTrainStep3dgs /\ server.render_type \notin PointsStepSelectors

\* C18: with a client attached and a selector the step does not support,
\* the step logs the unsupported selector, publishes nothing for that frame
\* and raises no error; this holds for train_step and for train_step_3dgs.
C18_UnsupportedSelectorIsNoOp ==
    UnsupportedSelector =>
        /\ pc # "crashed"
        /\ Has("unsupported")
        /\ ~Has("publish")

\* C19: in every iteration past fix_iters train_step clears the split
\* checkbox before the densify guard reads it, so densify_and_prune is not
\* invoked in any iteration past fix_iters, whatever the client wrote to
\* the checkbox between iterations.
C19_NoDensifyPastDeadline ==
    (RanTrainStep /\ iteration > cfg.fix_iters) =>
        /\ Has("clear_split")
        /\ ~server.checkbox_split
        /\ ~Has("densify_and_prune")

\* A trained iteration past fix_iters that is on the densify schedule and
\* began with the checkbox set.
C19_Witness ==
    /\ RanTrainStep
    /\ Trained
    /\ iteration > cfg.fix_iters
    /\ iteration < cfg.densify_until_iter
    /\ iteration % cfg.densification_interval = 0
    /\ \E i \in At("clear_split") : events[i][2] = 1
    /\ ~Has("densify_and_prune")

\* Positions in the latest step's log at which the population or the
\* optimizer state changes.
StateChanges == At("optimizer.step") \cup At("densify_and_prune")

\* C20: the checkpoint file a step leaves for its iteration holds the
\* population and optimizer state the run carries into the next iteration:
\* the last write of the file comes after every change the step makes to
\* them, densify_and_prune included.
C20_CheckpointHoldsCarriedState ==
    \A i \in At("save") :
        (\A k \in At("save") : k <= i) => \A j \in StateChanges : j < i

\* C21: every optimizer.step() of train_step applies the gradients of
\* exactly one backward pass, that of its own iteration, whatever the client
\* did to the optimizer-step button.
C21_StepAppliesOneBackward ==
    \A i \in At("optimizer.step") : events[i][2] = 1

\* C22: over a whole run position_lr_init is multiplied by 5 at most once:
\* it is the base value or 5 times the base value, and so is the value every
\* training_setup call sees.
C22_BoostAtMostOnce ==
    /\ position_lr_init \in {1, LrBoost}
    /\ \A i \in At("training_setup") : events[i][2] \in {1, LrBoost}

\* C23: with no client write to the mode control, every iteration at or
\* past mode2_iters that train_step processes runs in mode 2, in runs from
\* scratch, in resumed runs and after points-mode iterations.
C23_FinalizeFromMode2Iters ==
    (RanTrainStep /\ iteration >= cfg.mode2_iters) =>
        /\ server.mode = 2
        /\ bprim.boundary_mode = 2

\* C24: with a client attached and a selector train_step has a branch for,
\* "edges" included, the call publishes a frame it computed itself and does
\* not raise, whatever the training button and the boundary mode are.
C24_SupportedSelectorPublishes ==
    (RanTrainStep /\ server.attached /\ server.render_type \in TrainStepSelectors) =>
        /\ pc # "crashed"
        /\ \E i \in At("publish") : events[i][2] = 1

====
